---- MODULE Spec2Model ----
(***************************************************************************)
(* A model of pyvenn's src/venn/_venn.py: the pattern generator            *)
(* generate_logics, the petal computation generate_petals and the drawing  *)
(* entry point venn with select_colors and init_axes.                      *)
(*                                                                         *)
(* A Python str is modelled as the sequence of its characters, a dict as a *)
(* function, a list as a sequence and a set as a set.                      *)
(***************************************************************************)
EXTENDS Integers, Sequences, FiniteSets, TLC

VARIABLES
    \* generate_logics, run as the generator it is
    lg_n,        \* its argument n_sets
    lg_i,        \* the loop variable i of range(1, 2**n_sets)
    lg_out,      \* the strings yielded so far, in order
    lg_done,     \* the generator is exhausted
    \* generate_petals, called by a caller that owns the dataset objects
    datasets,    \* the caller's set objects, in dataset order
    datasets0,   \* history: the contents of those objects before any call
    ret,         \* how the last call ended: returned mapping or raised error
    iterations,  \* history: the iterations of that call's loop, with their locals
    first,       \* history: per format template, how the first call ended
    \* venn, one call of it
    labels,      \* argument labels
    petals,      \* argument petals: a dict from strings to texts
    cmap,        \* argument cmap: a colormap name or a list of colors
    legend_loc,  \* argument legend_loc: "None" or a location
    ax_arg,      \* argument ax: "None" or axes of the caller
    pc,          \* the statement the call is at
    draw_shape,  \* local draw_shape
    colors,      \* local colors
    idx,         \* the position of the running for loop in what it iterates
    log,         \* the calls made on matplotlib so far, in order
    outcome      \* "running", "returned", or the error raised

lvars == <<lg_n, lg_i, lg_out, lg_done>>
pvars == <<datasets, datasets0, ret, iterations, first>>
vargs == <<labels, petals, cmap, legend_loc, ax_arg>>
vvars == <<vargs, pc, draw_shape, colors, idx, log, outcome>>
vars == <<lvars, pvars, vvars>>

--------------------------------------------------------------------------
(* Bounds of the model.                                                    *)

\* generate_logics is called with n_sets in 0..MaxLogicN.
MaxLogicN == 7
\* n datasets hold between them at most MaxCells \div n distinct elements.
MaxCells == 12
\* venn is called with 0..MaxLabels labels and petals keys of such lengths.
MaxLabels == 7
\* A list passed as cmap holds 0..MaxColors colors.
MaxColors == 7

\* The diagram range of the number of sets (venn, select_colors).
MinSets == 2
MaxSets == 6

--------------------------------------------------------------------------
(* generate_logics: bin(i)[2:].zfill(n_sets) for i in range(1, 2**n_sets)  *)

Digit(b) == IF b = 0 THEN "0" ELSE "1"

RECURSIVE bin(_)
\* bin(i)[2:]: the binary digits of i >= 0, most significant first.
bin(i) == IF i < 2 THEN <<Digit(i)>> ELSE Append(bin(i \div 2), Digit(i % 2))

RECURSIVE ljust(_, _)
\* A variant of zfill that pads on the right, as str.ljust(width, "0") does.
ljust(s, width) == IF Len(s) >= width THEN s ELSE ljust(s \o <<"0">>, width)

RECURSIVE zfill(_, _)
\* str.zfill(width): pad on the left with "0" up to width, never truncate.
zfill(s, width) == IF Len(s) >= width THEN s ELSE zfill(<<"0">> \o s, width)

\* range(1, 2**n_sets) as the sequence of its values.
logics_range(n_sets) == [k \in 1..(2^n_sets - 1) |-> k]

\* The string yielded for loop value i.
logic_of(i, n_sets) == zfill(bin(i), n_sets)

\* list(generate_logics(n_sets)).
generate_logics(n_sets) ==
    LET r == logics_range(n_sets)
    IN  [k \in 1..Len(r) |-> logic_of(r[k], n_sets)]

LogicsIdle ==
    /\ lg_n = 0
    /\ lg_i = 1
    /\ lg_out = <<>>
    /\ lg_done = TRUE

PetalsIdle ==
    /\ datasets = <<>>
    /\ datasets0 = <<>>
    /\ ret = [kind |-> "none"]
    /\ iterations = <<>>
    /\ first = <<>>

VennIdle ==
    /\ labels = <<>>
    /\ petals = <<>>
    /\ cmap = [kind |-> "name"]
    /\ legend_loc = "None"
    /\ ax_arg = "None"
    /\ pc = "done"
    /\ draw_shape = "unset"
    /\ colors = <<>>
    /\ idx = 1
    /\ log = <<>>
    /\ outcome = "returned"

InitLogics ==
    /\ PetalsIdle
    /\ VennIdle
    /\ lg_n \in 0..MaxLogicN
    /\ lg_i = 1
    /\ lg_out = <<>>
    /\ lg_done = FALSE

\* One resumption of the generator that reaches the yield.
LogicsYield ==
    /\ ~lg_done
    /\ lg_i <= Len(logics_range(lg_n))
    /\ lg_out' = Append(lg_out, logic_of(logics_range(lg_n)[lg_i], lg_n))
    /\ lg_i' = lg_i + 1
    /\ UNCHANGED <<lg_n, lg_done>>
    /\ UNCHANGED <<pvars, vvars>>

\* The resumption that falls off the end of the loop (StopIteration).
LogicsStop ==
    /\ ~lg_done
    /\ lg_i > Len(logics_range(lg_n))
    /\ lg_done' = TRUE
    /\ UNCHANGED <<lg_n, lg_i, lg_out>>
    /\ UNCHANGED <<pvars, vvars>>

NextLogics == LogicsYield \/ LogicsStop

SpecLogics == InitLogics /\ [][NextLogics]_vars

--------------------------------------------------------------------------
(* generate_petals                                                         *)

\* The format templates the caller passes: the default
\* "{size} ({percentage:.1f}%)" and a custom "{logic}: {size}".
Fmts == {"default", "logic_size"}

RECURSIVE set_union(_, _)
\* set.union(self, *others): a new set, no operand is changed.
set_union(self, others) ==
    IF Len(others) = 0 THEN self
    ELSE set_union(self \cup Head(others), Tail(others))

RECURSIVE set_intersection(_, _)
\* set.intersection(self, *others): a new set, no operand is changed.
set_intersection(self, others) ==
    IF Len(others) = 0 THEN self
    ELSE set_intersection(self \cap Head(others), Tail(others))

\* A variant of union_of that accumulates into the first dataset object, as
\* dataset_union = datasets[0]; dataset_union.update(*datasets[1:]) does.
union_of_inplace(heap) ==
    IF Len(heap) = 0
    THEN [error |-> "TypeError", heap |-> heap, dataset_union |-> {}]
    ELSE LET u == set_union(Head(heap), Tail(heap))
         IN  [error |-> "none", heap |-> [heap EXCEPT ![1] = u],
              dataset_union |-> u]

\* Line 58, dataset_union = set.union(*datasets), on the objects in heap:
\* the new set, and the heap as the statement leaves it (set.union builds a
\* new set, so the heap is as it was). Without a dataset there is no self
\* argument and the call is a TypeError.
union_of(heap) ==
    IF Len(heap) = 0
    THEN [error |-> "TypeError", heap |-> heap, dataset_union |-> {}]
    ELSE [error |-> "none", heap |-> heap,
          dataset_union |-> set_union(Head(heap), Tail(heap))]

\* A variant of positions that reads the string from its right end, as
\* logic[-1 - i] does.
positions_from_right(logic, n_sets, bit) ==
    SelectSeq([i \in 1..n_sets |-> i], LAMBDA i : logic[n_sets + 1 - i] = bit)

\* [i for i in range(n_sets) if logic[i] == bit], as 1-based positions.
positions(logic, n_sets, bit) ==
    SelectSeq([i \in 1..n_sets |-> i], LAMBDA i : logic[i] = bit)

\* [datasets[i] for i in positions]: the objects' current contents.
sets_at(heap, pos) == [k \in 1..Len(pos) |-> heap[pos[k]]]

\* A variant of petal_of that leaves out the subtraction of the excluded
\* sets.
petal_of_included_only(heap, dataset_union, logic) ==
    LET included_sets == sets_at(heap, positions(logic, Len(heap), "1"))
    IN  IF Len(included_sets) = 0
        THEN [error |-> "TypeError", petal_set |-> {}]
        ELSE [error |-> "none",
              petal_set |->
                dataset_union \cap
                   set_intersection(Head(included_sets), Tail(included_sets))]

\* Lines 62-71 of one iteration: included_sets, excluded_sets, petal_set.
\* set.intersection(*[]) has no self argument (TypeError).
petal_of(heap, dataset_union, logic) ==
    LET n_sets == Len(heap)
        included_sets == sets_at(heap, positions(logic, n_sets, "1"))
        excluded_sets == sets_at(heap, positions(logic, n_sets, "0"))
    IN  IF Len(included_sets) = 0
        THEN [error |-> "TypeError", petal_set |-> {}]
        ELSE [error |-> "none",
              petal_set |->
                (dataset_union \cap
                   set_intersection(Head(included_sets), Tail(included_sets)))
                \ set_union({}, excluded_sets)]

\* A variant of percentage that answers 0 for an empty universe, as
\* 100*len(petal_set)/universe_size if universe_size else 0 does.
percentage_or_zero(size, universe_size) ==
    IF universe_size = 0
    THEN [error |-> "none", num |-> 0, den |-> 1]
    ELSE [error |-> "none", num |-> 100 * size, den |-> universe_size]

\* 100*len(petal_set)/universe_size: true division, which raises on 0. The
\* quotient is kept exact, as numerator and denominator.
percentage(size, universe_size) ==
    IF universe_size = 0
    THEN [error |-> "ZeroDivisionError"]
    ELSE [error |-> "none", num |-> 100 * size, den |-> universe_size]

\* format(x, ".1f") in tenths: the quotient rounded to one fractional digit,
\* ties to even.
tenths(num, den) ==
    LET q == (10 * num) \div den
        r == (10 * num) % den
    IN  IF 2 * r > den \/ (2 * r = den /\ q % 2 = 1) THEN q + 1 ELSE q

\* fmt.format(logic=..., size=..., percentage=...): the text, as the values
\* substituted into the template's fields.
fmt_format(fmt, logic, size, pct) ==
    IF fmt = "default"
    THEN [size |-> size, percentage_1f |-> tenths(pct.num, pct.den)]
    ELSE [logic |-> logic, size |-> size]

\* One iteration of the for loop of lines 61-75 for `logic`: the local
\* petal_set and the text stored under petals[logic], or the error raised.
iteration(heap, dataset_union, universe_size, logic, fmt) ==
    LET p == petal_of(heap, dataset_union, logic)
        size == Cardinality(p.petal_set)
        pct == percentage(size, universe_size)
    IN  IF p.error # "none"
        THEN [logic |-> logic, error |-> p.error, petal_set |-> {}]
        ELSE IF pct.error # "none"
        THEN [logic |-> logic, error |-> pct.error, petal_set |-> p.petal_set]
        ELSE [logic |-> logic, error |-> "none", petal_set |-> p.petal_set,
              text |-> fmt_format(fmt, logic, size, pct)]

\* The iterations the loop of lines 61-75 runs, in order: one per string of
\* generate_logics(n_sets), up to and including the first that raises.
petals_loop(heap, dataset_union, fmt) ==
    LET logics == generate_logics(Len(heap))
        universe_size == Cardinality(dataset_union)
        \* every iteration, evaluated once (SubSeq builds the tuple)
        all == SubSeq([k \in 1..Len(logics) |->
                         iteration(heap, dataset_union, universe_size,
                                   logics[k], fmt)],
                      1, Len(logics))
        raising == {k \in 1..Len(logics) : all[k].error # "none"}
    IN  IF raising = {} THEN all
        ELSE SubSeq(all, 1, CHOOSE k \in raising : \A j \in raising : k <= j)

\* A variant of petals_dict that stores no entry for an empty petal, as a
\* guard "if petal_set:" before the assignment does.
petals_dict_nonempty(iters) ==
    [logic \in {iters[k].logic : k \in {j \in 1..Len(iters) : iters[j].petal_set # {}}} |->
        LET ks == {k \in 1..Len(iters) : iters[k].logic = logic}
        IN  iters[CHOOSE k \in ks : \A j \in ks : j <= k].text]

\* The dict the assignments petals[logic] = text of `iters` build: a later
\* assignment to a key replaces an earlier one.
petals_dict(iters) ==
    [logic \in {iters[k].logic : k \in 1..Len(iters)} |->
        LET ks == {k \in 1..Len(iters) : iters[k].logic = logic}
        IN  iters[CHOOSE k \in ks : \A j \in ks : j <= k].text]

\* How generate_petals ends after union_of gave u and the loop ran iters:
\* the first error raised (and then no mapping at all), or the mapping.
generate_petals(u, iters, fmt) ==
    IF u.error # "none"
    THEN [kind |-> "raise", fmt |-> fmt, error |-> u.error]
    ELSE IF Len(iters) > 0 /\ iters[Len(iters)].error # "none"
    THEN [kind |-> "raise", fmt |-> fmt, error |-> iters[Len(iters)].error]
    ELSE [kind |-> "return", fmt |-> fmt, petals |-> petals_dict(iters)]

\* Bit i (1-based, from the low end) of code.
BitOf(code, i) == (code \div (2 ^ (i - 1))) % 2

NonDecreasing(f) == \A e \in DOMAIN f : \A d \in DOMAIN f : e <= d => f[e] <= f[d]

\* The elements n datasets hold between them are 1..ElemsFor(n).
ElemsFor(n) == IF n = 0 THEN 0 ELSE MaxCells \div n

\* The caller's datasets: n sets, 0 <= n <= MaxSets, over 1..ElemsFor(n), one
\* sequence for each way the elements can be spread over the sets up to
\* renaming elements (member[e] encodes the sets element e belongs to; 0:
\* none of them).
InitPetals ==
    /\ LogicsIdle
    /\ VennIdle
    /\ \E n \in 0..MaxSets :
         \E member \in [1..ElemsFor(n) -> 0..(2 ^ n - 1)] :
            /\ NonDecreasing(member)
            /\ datasets = [i \in 1..n |->
                             {e \in 1..ElemsFor(n) : BitOf(member[e], i) = 1}]
    /\ datasets0 = datasets
    /\ ret = [kind |-> "none"]
    /\ iterations = <<>>
    /\ first = <<>>

\* The caller calls generate_petals(datasets, fmt) and keeps what it gets.
CallGeneratePetals ==
    \E fmt \in Fmts :
       LET u == union_of(datasets)
       IN  /\ datasets' = u.heap
           /\ iterations' = IF u.error # "none" THEN <<>>
                            ELSE petals_loop(u.heap, u.dataset_union, fmt)
           /\ ret' = generate_petals(u, iterations', fmt)
           /\ first' = IF fmt \in DOMAIN first THEN first
                       ELSE (fmt :> ret') @@ first
           /\ UNCHANGED datasets0
           /\ UNCHANGED <<lvars, vvars>>

NextPetals == CallGeneratePetals

SpecPetals == InitPetals /\ [][NextPetals]_vars

--------------------------------------------------------------------------
(* The layout tables of venn._constants                                    *)

\* SHAPE_COORDS[n_sets], SHAPE_DIMS[n_sets], SHAPE_ANGLES[n_sets]: one entry
\* per dataset.
SHAPE_COORDS(n_sets) == [i \in 1..n_sets |-> <<"shape", n_sets, i>>]

\* The keys of PETAL_LABEL_COORDS[n_sets], in the order of the dict: every
\* pattern of n_sets datasets.
PETAL_LABEL_COORDS(n_sets) == generate_logics(n_sets)

--------------------------------------------------------------------------
(* select_colors and venn                                                  *)

InconsistentLabels == "ValueError: Inconsistent petal and dataset labels"
BadNumberOfSets == "ValueError: Number of sets must be between 2 and 6"
BadNumberOfColors == "ValueError: n_colors must be an integer between 2 and 6"
KeyError == "KeyError"

\* colors[:n]: the first n items, or all of them when there are fewer.
take(seq, n) == SubSeq(seq, 1, IF Len(seq) < n THEN Len(seq) ELSE n)

\* select_colors(n_colors, cmap, alpha): the colors of the list as given, or
\* n_colors samples of the named colormap; then colors[:n_colors].
select_colors(n_colors, cm) ==
    IF (n_colors < MinSets) \/ (n_colors > MaxSets)
    THEN [error |-> BadNumberOfColors, colors |-> <<>>]
    ELSE [error |-> "none",
          colors |-> take(IF cm.kind = "list" THEN cm.colors
                          ELSE [i \in 1..n_colors |-> <<"sample", i>>],
                          n_colors)]

\* A variant of consistent that only rejects keys shorter than n_sets, as
\* the test len(logic) < n_sets does.
consistent_not_shorter(pt, n_sets) == \A logic \in DOMAIN pt : ~(Len(logic) < n_sets)

\* Lines 90-92: no key of petals has a length other than n_sets.
consistent(pt, n_sets) == \A logic \in DOMAIN pt : ~(Len(logic) # n_sets)

\* A variant of shape_for whose ellipse branch has no lower limit, as the
\* test n_sets < 6 does.
shape_for_below_six(n_sets) ==
    IF n_sets < MaxSets THEN "draw_ellipse"
    ELSE IF n_sets = MaxSets THEN "draw_triangle"
    ELSE BadNumberOfSets

\* Lines 93-98: the drawing function for n_sets, or the error raised.
shape_for(n_sets) ==
    IF MinSets <= n_sets /\ n_sets < MaxSets THEN "draw_ellipse"
    ELSE IF n_sets = MaxSets THEN "draw_triangle"
    ELSE BadNumberOfSets

\* zip(SHAPE_COORDS[n], SHAPE_DIMS[n], SHAPE_ANGLES[n], colors): as long as
\* the shortest of them.
shape_params(n_sets, cols) ==
    [i \in 1..(IF Len(cols) < n_sets THEN Len(cols) ELSE n_sets) |->
        [coords |-> SHAPE_COORDS(n_sets)[i], color |-> cols[i]]]

\* The petals a caller passes for key length m: the keys generate_petals
\* returns for m datasets, but for those in `dropped`, and with those in
\* `extra`; the text under a key names the key.
PetalsArg(m, dropped, extra) ==
    [logic \in ({generate_logics(m)[j] : j \in 1..(2 ^ m - 1)} \ dropped) \cup extra
        |-> <<"text of", logic>>]

InitVenn ==
    /\ LogicsIdle
    /\ PetalsIdle
    /\ \E n \in 0..MaxLabels : labels = [i \in 1..n |-> <<"label", i>>]
    /\ \E m \in 0..MaxLabels :
         \E dropped \in {{}, {zfill(<<"1">>, m)}, {[j \in 1..m |-> "1"]}} :
           \E extra \in {{}, {[j \in 1..m |-> "0"]}, {[j \in 1..(m + 1) |-> "0"]}} :
              petals = PetalsArg(m, dropped, extra)
    /\ \/ cmap = [kind |-> "name"]
       \/ \E c \in 0..MaxColors :
            cmap = [kind |-> "list", colors |-> [i \in 1..c |-> <<"color", i>>]]
    /\ legend_loc \in {"None", "upper right"}
    /\ ax_arg \in {"None", "given"}
    /\ pc = "validate"
    /\ draw_shape = "unset"
    /\ colors = <<>>
    /\ idx = 1
    /\ log = <<>>
    /\ outcome = "running"

Raise(error) ==
    /\ outcome' = error
    /\ pc' = "done"

\* Lines 89-92.
VennValidate ==
    /\ pc = "validate"
    /\ IF consistent(petals, Len(labels))
       THEN pc' = "choose" /\ UNCHANGED outcome
       ELSE Raise(InconsistentLabels)
    /\ UNCHANGED <<vargs, draw_shape, colors, idx, log>>
    /\ UNCHANGED <<lvars, pvars>>

\* Lines 93-98.
VennChooseShape ==
    /\ pc = "choose"
    /\ IF shape_for(Len(labels)) = BadNumberOfSets
       THEN Raise(BadNumberOfSets) /\ UNCHANGED draw_shape
       ELSE /\ draw_shape' = shape_for(Len(labels))
            /\ pc' = "select_colors"
            /\ UNCHANGED outcome
    /\ UNCHANGED <<vargs, colors, idx, log>>
    /\ UNCHANGED <<lvars, pvars>>

\* Line 99.
VennSelectColors ==
    /\ pc = "select_colors"
    /\ LET r == select_colors(Len(labels), cmap)
       IN  IF r.error # "none"
           THEN Raise(r.error) /\ UNCHANGED <<colors, log>>
           ELSE /\ colors' = r.colors
                /\ log' = Append(log, [op |-> "select_colors"])
                /\ pc' = "init_axes"
                /\ UNCHANGED outcome
    /\ UNCHANGED <<vargs, draw_shape, idx>>
    /\ UNCHANGED <<lvars, pvars>>

\* Line 100, init_axes: subplots() when no axes were passed, then ax.set.
VennInitAxes ==
    /\ pc = "init_axes"
    /\ log' = log \o (IF ax_arg = "None" THEN <<[op |-> "subplots"]>> ELSE <<>>)
                  \o <<[op |-> "ax.set"]>>
    /\ pc' = "shapes"
    /\ idx' = 1
    /\ UNCHANGED <<vargs, draw_shape, colors, outcome>>
    /\ UNCHANGED <<lvars, pvars>>

\* Lines 104-105: one iteration of the loop over shape_params, or its end.
VennDrawShape ==
    /\ pc = "shapes"
    /\ LET params == shape_params(Len(labels), colors)
       IN  IF idx <= Len(params)
           THEN /\ log' = Append(log,
                     [op |-> "add_patch",
                      patch |-> IF draw_shape = "draw_ellipse" THEN "Ellipse"
                                ELSE "Polygon",
                      coords |-> params[idx].coords,
                      color |-> params[idx].color])
                /\ idx' = idx + 1
                /\ UNCHANGED pc
           ELSE /\ pc' = "texts"
                /\ idx' = 1
                /\ UNCHANGED log
    /\ UNCHANGED <<vargs, draw_shape, colors, outcome>>
    /\ UNCHANGED <<lvars, pvars>>

\* Lines 106-107: one iteration of the loop over PETAL_LABEL_COORDS[n_sets],
\* or its end; petals[logic] is a KeyError for a key petals has not.
VennDrawText ==
    /\ pc = "texts"
    /\ LET layout == PETAL_LABEL_COORDS(Len(labels))
       IN  IF idx <= Len(layout)
           THEN IF layout[idx] \in DOMAIN petals
                THEN /\ log' = Append(log,
                          [op |-> "text", logic |-> layout[idx],
                           text |-> petals[layout[idx]]])
                     /\ idx' = idx + 1
                     /\ UNCHANGED <<pc, outcome>>
                ELSE Raise(KeyError) /\ UNCHANGED <<log, idx>>
           ELSE /\ pc' = "legend"
                /\ UNCHANGED <<log, idx, outcome>>
    /\ UNCHANGED <<vargs, draw_shape, colors>>
    /\ UNCHANGED <<lvars, pvars>>

\* Lines 108-110.
VennLegendAndReturn ==
    /\ pc = "legend"
    /\ log' = IF legend_loc # "None"
              THEN Append(log, [op |-> "legend", labels |-> labels])
              ELSE log
    /\ outcome' = "returned"
    /\ pc' = "done"
    /\ UNCHANGED <<vargs, draw_shape, colors, idx>>
    /\ UNCHANGED <<lvars, pvars>>

NextVenn ==
    \/ VennValidate
    \/ VennChooseShape
    \/ VennSelectColors
    \/ VennInitAxes
    \/ VennDrawShape
    \/ VennDrawText
    \/ VennLegendAndReturn

SpecVenn == InitVenn /\ [][NextVenn]_vars

--------------------------------------------------------------------------
(* Properties of generate_logics (checked under SpecLogics)                *)

RECURSIVE BinaryValue(_)
\* The value of a string over {"0","1"} read as a binary numeral.
BinaryValue(s) ==
    IF Len(s) = 0 THEN 0
    ELSE 2 * BinaryValue(SubSeq(s, 1, Len(s) - 1))
         + (IF s[Len(s)] = "1" THEN 1 ELSE 0)

\* The all-zero string of length n.
Zeros(n) == [j \in 1..n |-> "0"]

\* C1: for n_sets in 2..6 the k-th string generate_logics yields has length
\* n_sets, is over {0,1} and has binary value k (so the strings are distinct,
\* strictly increasing and never all-zero), and an exhausted generator has
\* yielded exactly 2^n_sets - 1 strings.
C1_LogicsEnumeration ==
    lg_n \in MinSets..MaxSets =>
       /\ \A k \in 1..Len(lg_out) :
            /\ Len(lg_out[k]) = lg_n
            /\ \A j \in 1..lg_n : lg_out[k][j] \in {"0", "1"}
            /\ BinaryValue(lg_out[k]) = k
            /\ lg_out[k] # Zeros(lg_n)
            /\ \A j \in 1..(k - 1) :
                 /\ lg_out[j] # lg_out[k]
                 /\ BinaryValue(lg_out[j]) < BinaryValue(lg_out[k])
       /\ Len(lg_out) <= 2 ^ lg_n - 1
       /\ lg_done => Len(lg_out) = 2 ^ lg_n - 1

\* The generator for six sets is exhausted after 63 strings.
C1_Witness == lg_done /\ lg_n = MaxSets /\ Len(lg_out) = 63

--------------------------------------------------------------------------
(* Properties of generate_petals (checked under SpecPetals)                *)

\* The union of the datasets as the caller passed them.
Universe == UNION {datasets0[i] : i \in 1..Len(datasets0)}

\* The elements whose membership in each dataset is what P says, position i
\* of P (from the left) speaking for dataset i.
Matching(P) ==
    {x \in Universe :
       \A i \in 1..Len(datasets0) : (x \in datasets0[i]) <=> (P[i] = "1")}

\* Every string of length n over {"0","1"} but the all-zero one.
Patterns(n) == [1..n -> {"0", "1"}] \ {Zeros(n)}

Returned == ret.kind = "return"

InRange == Len(datasets0) \in MinSets..MaxSets

\* C2: the size reported under a key P is the number of elements of the
\* universe that are in exactly the datasets P marks with "1"; the all-ones
\* key is there and reports the size of the intersection of all datasets.
C2_PetalSizeIsExactMembership ==
    (Returned /\ InRange /\ Universe # {}) =>
       /\ \A P \in DOMAIN ret.petals :
            ret.petals[P].size = Cardinality(Matching(P))
       /\ [j \in 1..Len(datasets0) |-> "1"] \in DOMAIN ret.petals

\* Six datasets with a non-empty intersection and an element outside it.
C2_Witness ==
    /\ Returned
    /\ Len(datasets0) = MaxSets
    /\ ret.petals[[j \in 1..MaxSets |-> "1"]].size = 1
    /\ \E P \in DOMAIN ret.petals :
          /\ ret.petals[P].size = 1
          /\ \E i \in 1..MaxSets : P[i] = "0"

RECURSIVE SumOfSizes(_, _)
\* The sum of the sizes a mapping reports under the keys in `keys`.
SumOfSizes(mapping, keys) ==
    IF keys = {} THEN 0
    ELSE LET P == CHOOSE Q \in keys : TRUE
         IN  mapping[P].size + SumOfSizes(mapping, keys \ {P})

\* C3: the petal sets of the 2^N - 1 iterations are pairwise disjoint, their
\* union is the universe, and the reported sizes add up to its size.
C3_PetalsPartitionUniverse ==
    (Returned /\ InRange /\ Universe # {}) =>
       /\ Len(iterations) = 2 ^ Len(datasets0) - 1
       /\ \A j \in 1..Len(iterations) : \A k \in 1..Len(iterations) :
            j # k => iterations[j].petal_set \cap iterations[k].petal_set = {}
       /\ UNION {iterations[k].petal_set : k \in 1..Len(iterations)} = Universe
       /\ \A x \in Universe :
            Cardinality({k \in 1..Len(iterations) :
                            x \in iterations[k].petal_set}) = 1
       /\ SumOfSizes(ret.petals, DOMAIN ret.petals) = Cardinality(Universe)

\* Three datasets sharing elements: four elements spread over three petals.
C3_Witness ==
    /\ Returned
    /\ Len(datasets0) = 3
    /\ Cardinality(Universe) = 4
    /\ Cardinality({k \in 1..Len(iterations) : iterations[k].petal_set # {}}) = 3

\* C4: a returned mapping has exactly the strings of generate_logics(N) as
\* its keys: all 2^N - 1 of them, and never the all-zero string.
C4_KeysAreTheLogics ==
    Returned =>
       /\ DOMAIN ret.petals =
            {generate_logics(Len(datasets0))[k] : k \in 1..(2 ^ Len(datasets0) - 1)}
       /\ DOMAIN ret.petals = Patterns(Len(datasets0))
       /\ Zeros(Len(datasets0)) \notin DOMAIN ret.petals
       /\ Cardinality(DOMAIN ret.petals) = 2 ^ Len(datasets0) - 1

\* A mapping for six datasets, some of its petals empty.
C4_Witness ==
    /\ Returned
    /\ Len(datasets0) = MaxSets
    /\ \E P \in DOMAIN ret.petals : ret.petals[P].size = 0

Called == ret.kind # "none"

C9_PureAndRepeatable ==
    Called =>
       /\ datasets = datasets0
       /\ ret.fmt \in DOMAIN first
       /\ ret = first[ret.fmt]

\* Both templates have been used on datasets with a non-empty union, the
\* default one last.
C9_Witness ==
    /\ DOMAIN first = Fmts
    /\ Returned
    /\ ret.fmt = "default"
    /\ Len(datasets0) = 3
    /\ Cardinality(Universe) = 4

--------------------------------------------------------------------------
(* Properties of venn (checked under SpecVenn)                             *)

NSets == Len(labels)

\* Every key of petals has the length NSets.
KeysFit == \A logic \in DOMAIN petals : Len(logic) = NSets

\* The patterns of the layout table for NSets.
LayoutKeys == {PETAL_LABEL_COORDS(NSets)[j] : j \in 1..Len(PETAL_LABEL_COORDS(NSets))}

\* The shapes, texts and legends added to the axes so far, in order.
Drawn == SelectSeq(log, LAMBDA e : e.op \in {"add_patch", "text", "legend"})

\* The shapes added to the axes so far, in order.
Patches == SelectSeq(log, LAMBDA e : e.op = "add_patch")

\* C6: with a number of labels outside 2..6 and keys of that length, venn
\* selects no color, creates no axes and draws nothing, and ends raising the
\* number-of-sets error.
C6_BadCardinalityRaisesFirst ==
    (~(NSets \in MinSets..MaxSets) /\ KeysFit) =>
       /\ log = <<>>
       /\ colors = <<>>
       /\ pc \in {"validate", "choose", "done"}
       /\ pc = "done" => outcome = BadNumberOfSets

\* The call with seven labels and the 127 keys of length seven has raised.
C6_Witness ==
    /\ NSets = MaxSets + 1
    /\ KeysFit
    /\ Cardinality(DOMAIN petals) = 127
    /\ pc = "done"
    /\ outcome = BadNumberOfSets

\* C7 as claimed: with 2..6 labels and a key set that differs from the
\* layout's patterns, the call ends in an error with nothing drawn.
C7_MismatchFailsFast ==
    (NSets \in MinSets..MaxSets /\ DOMAIN petals # LayoutKeys /\ pc = "done") =>
       /\ outcome # "returned"
       /\ Drawn = <<>>

\* C8: with a key of a length other than the number of labels, venn draws
\* nothing and ends raising the inconsistent-labels error; a call that got
\* past the validation has only keys of that length.
C8_KeyLengthsValidated ==
    /\ ~KeysFit =>
          /\ log = <<>>
          /\ pc \in {"validate", "done"}
          /\ pc = "done" => outcome = InconsistentLabels
    /\ (pc # "validate" /\ outcome # InconsistentLabels) => KeysFit

\* The call with three labels and a key of length four among those of
\* length three has raised.
C8_Witness ==
    /\ NSets = 3
    /\ \E logic \in DOMAIN petals : Len(logic) = 4
    /\ \E logic \in DOMAIN petals : Len(logic) = 3
    /\ pc = "done"
    /\ outcome = InconsistentLabels

\* C10 as claimed: once the shape loop of a validated call is over, exactly
\* NSets shapes are on the axes, the i-th with the coordinates of dataset i
\* and a color of its own, ellipses for 2..5 sets and triangles for 6; no
\* shape follows a text; a legend is the last thing added, and is added
\* exactly when legend_loc is not None.
C10_DrawsEveryShape ==
    (NSets \in MinSets..MaxSets /\ KeysFit /\ pc \in {"texts", "legend", "done"}) =>
       /\ Len(Patches) = NSets
       /\ \A i \in 1..Len(Patches) :
            /\ Patches[i].coords = SHAPE_COORDS(NSets)[i]
            /\ Patches[i].patch = IF NSets = MaxSets THEN "Polygon" ELSE "Ellipse"
            /\ \A j \in 1..Len(Patches) : i # j => Patches[i].color # Patches[j].color
       /\ \A i \in 1..Len(log) : \A j \in 1..Len(log) :
            (i < j /\ log[i].op = "text") => log[j].op # "add_patch"
       /\ \A j \in 1..Len(log) :
            log[j].op = "legend" => (j = Len(log) /\ legend_loc # "None")
       /\ outcome = "returned" =>
            (legend_loc # "None" <=> log[Len(log)].op = "legend")

====
